---- MODULE Spec2Model ----
(***************************************************************************)
(* Model of plugins/modules/attachment.py (servicenow.itsm): the module    *)
(* that downloads one attachment by sys_id to a destination path and       *)
(* reports the SHA-256 digests of the payload received and of the file     *)
(* written.                                                                *)
(*                                                                         *)
(* main() and run() and the two checksum functions are translated from     *)
(* the module.  module_utils (client, attachment, errors) is imported by   *)
(* the module but its source is not part of src/; AttachmentClient is      *)
(* modelled from section 4.1 of the specification: a fetch that returns    *)
(* the response whatever its status ("does not validate", "the caller      *)
(* decides whether a non-2xx status is fatal") followed by the write of    *)
(* the payload to the destination ("the network fetch and the local        *)
(* write, nothing else").                                                  *)
(***************************************************************************)
EXTENDS Integers, Sequences, FiniteSets, TLC

\* ---------------------------------------------------------------- bounds
\* Longest payload / file, in bytes.
MaxLen == 4
\* Stand-in for h.block_size (64 for SHA-256), scaled so that files of
\* MaxLen bytes are read in several chunks, the last one short or full.
BlockSize == 2
\* Invocations of the module in one behaviour (same sys_id and dest).
Runs == 2

Byte == {0, 1}

RECURSIVE SeqsUpTo(_)
SeqsUpTo(n) ==
    IF n = 0 THEN {<<>>}
    ELSE LET shorter == SeqsUpTo(n - 1)
         IN  shorter \cup {Append(s, b) : s \in {t \in shorter : Len(t) = n - 1}, b \in Byte}

Payloads == SeqsUpTo(MaxLen)

\* ------------------------------------------------------------ hashlib
\* hashlib.sha256(): a fresh hash object.  The compression function is
\* abstracted to a 16-bit polynomial step; what is kept is the streaming
\* interface (update folds the bytes in order into the state).
sha256_new == [alg |-> "sha256", state |-> 1]

Compress(s, b) == (s * 3 + b + 1) % 65536

RECURSIVE update(_, _)
update(h, bytes) ==
    IF bytes = <<>> THEN h
    ELSE update([h EXCEPT !.state = Compress(h.state, Head(bytes))], Tail(bytes))

HexChars == <<"0", "1", "2", "3", "4", "5", "6", "7",
              "8", "9", "a", "b", "c", "d", "e", "f">>

\* h.hexdigest(): the state as four hexadecimal digits, most significant first.
hexdigest(h) ==
    << HexChars[((h.state \div 4096) % 16) + 1],
       HexChars[((h.state \div 256) % 16) + 1],
       HexChars[((h.state \div 16) % 16) + 1],
       HexChars[(h.state % 16) + 1] >>

\* ------------------------------------------------------------ files
NoFile == [exists |-> FALSE, bytes |-> <<>>]
FileOf(bytes) == [exists |-> TRUE, bytes |-> bytes]

\* What the destination may hold before an invocation.
PriorFiles == {NoFile, FileOf(<<>>), FileOf(<<1>>), FileOf(<<0, 1, 1>>)}

Min(a, b) == IF a < b THEN a ELSE b

\* file.read(n) at offset pos of a file holding content: at most n bytes,
\* empty at end of file.
FileRead(content, pos, n) == SubSeq(content, pos + 1, Min(pos + n, Len(content)))

\* ------------------------------------------------------------ remote
DecDigits == <<"0", "1", "2", "3", "4", "5", "6", "7", "8", "9">>
DecStr(n) == DecDigits[n + 1]
AbsentMeta == "<absent>"

\* int(size_bytes) succeeds on decimal strings only.
IsIntStr(s) == \E n \in 0..9 : DecStr(n) = s

NotFoundDetail == "Attachment not found"
ErrorBody == <<1, 0>>

\* What the remote answers for the requested sys_id: the attachment (200,
\* with its metadata header well-formed, malformed or absent), or an error.
Responses ==
    {[status |-> 200, data |-> p, size_bytes |-> m, detail |-> ""] :
        p \in Payloads, m \in {AbsentMeta, "abc"}}
    \cup {[status |-> 200, data |-> p, size_bytes |-> DecStr(Len(p)), detail |-> ""] :
        p \in Payloads}
    \cup {[status |-> 404, data |-> ErrorBody, size_bytes |-> AbsentMeta,
           detail |-> NotFoundDetail],
          [status |-> 500, data |-> ErrorBody, size_bytes |-> AbsentMeta,
           detail |-> "Internal error"]}

NoResponse == [status |-> 0, data |-> <<>>, size_bytes |-> AbsentMeta, detail |-> ""]

\* ------------------------------------------------------------ errors
NoExc == [kind |-> "none", msg |-> ""]
Exc(kind, msg) == [kind |-> kind, msg |-> msg]

\* The subclasses of errors.ServiceNowError.
ServiceNowErrors ==
    {"RemoteServiceError", "AttachmentNotFound", "RemoteRequestFailed", "MalformedMetadata"}

VARIABLES
    pc,             \* position of main()
    run_no,         \* which invocation this is
    remote,         \* the remote's answer for sys_id (unchanged across runs)
    file,           \* the file at module.params["dest"]
    fileBefore,     \* the file as it was when the invocation began
    response,       \* run(): response
    h_src,          \* get_checksum_src(): h
    checksum_src,   \* run(): checksum_src
    h,              \* get_checksum_dest(): h
    pos,            \* get_checksum_dest(): offset of the open file
    fed,            \* bytes passed to h.update so far, in order
    chunks,         \* lengths of the chunks passed to h.update
    checksum_dest,  \* run(): checksum_dest
    exc,            \* exception in flight
    out,            \* what the module has emitted (exit_json / fail_json)
    fetches,        \* HTTP requests issued in this invocation
    writes,         \* writes of dest attempted in this invocation
    prevOut,        \* out of the previous invocation
    prevFile        \* dest at the end of the previous invocation

vars == <<pc, run_no, remote, file, fileBefore, response, h_src, checksum_src, h,
          pos, fed, chunks, checksum_dest, exc, out, fetches, writes, prevOut, prevFile>>

NoDigest == <<>>

Terminal == {"exited", "failed", "crashed"}

Init ==
    /\ pc = "main"
    /\ run_no = 1
    /\ remote \in Responses
    /\ file \in PriorFiles
    /\ fileBefore = file
    /\ response = NoResponse
    /\ h_src = sha256_new
    /\ checksum_src = NoDigest
    /\ h = sha256_new
    /\ pos = 0
    /\ fed = <<>>
    /\ chunks = <<>>
    /\ checksum_dest = NoDigest
    /\ exc = NoExc
    /\ out = <<>>
    /\ fetches = 0
    /\ writes = 0
    /\ prevOut = <<>>
    /\ prevFile = NoFile

\* ------------------------------------------------------------ checksums
\* hashlib.sha1(): a fresh hash object of the other algorithm.
sha1_new == [alg |-> "sha1", state |-> 2]

\* The payload hashed with SHA-1 instead of SHA-256.
src_hash_sha1(binary_data) == update(sha1_new, binary_data)

\* get_checksum_src: h = hashlib.sha256(); h.update(binary_data)
src_hash(binary_data) == update(sha256_new, binary_data)

\* get_checksum_src(binary_data): return h.hexdigest()
get_checksum_src(binary_data) == hexdigest(src_hash(binary_data))

\* `if not chunk: break` with the break taken on any short read.
LoopBreaks_short(chunk) == Len(chunk) < BlockSize

\* get_checksum_dest: `if not chunk: break`.
LoopBreaks(chunk) == chunk = <<>>

\* The destination hashed as it was before the download.
OpenDest_before == fileBefore

\* get_checksum_dest: open(file_path, 'rb'), the file the loop reads.
OpenDest == file

\* `except:` catching every exception, SystemExit included.
Catches_bare(e) == TRUE

\* main: `except errors.ServiceNowError as e`.
Catches(e) == e.kind \in ServiceNowErrors

\* ------------------------------------------------------------ actions
\* AttachmentClient.get_attachment, first half: the HTTP GET.  A transport
\* failure raises; any response that arrives is returned, whatever its status.
Fetch ==
    /\ pc = "main"
    /\ fetches' = fetches + 1
    /\ \/ /\ response' = remote
          /\ pc' = "fetched"
          /\ exc' = exc
       \/ /\ response' = response
          /\ pc' = "raised"
          /\ exc' = Exc("RemoteServiceError", "connection failed")
    /\ UNCHANGED <<run_no, remote, file, fileBefore, h_src, checksum_src, h, pos, fed,
                   chunks, checksum_dest, out, writes, prevOut, prevFile>>

\* AttachmentClient.get_attachment, second half: the payload is written to
\* dest, creating or truncating it.  A failed write raises IOError and leaves
\* the file untouched (open refused) or truncated (write refused).
Persist ==
    /\ pc = "fetched"
    /\ writes' = writes + 1
    /\ \/ /\ file' = FileOf(response.data)
          /\ pc' = "persisted"
          /\ exc' = exc
       \/ /\ file' \in {file, FileOf(<<>>)}
          /\ pc' = "raised"
          /\ exc' = Exc("IOError", "cannot write destination")
    /\ UNCHANGED <<run_no, remote, fileBefore, response, h_src, checksum_src, h, pos,
                   fed, chunks, checksum_dest, out, fetches, prevOut, prevFile>>

\* run: checksum_src = get_checksum_src(response.data)
ChecksumSrc ==
    /\ pc = "persisted"
    /\ h_src' = src_hash(response.data)
    /\ checksum_src' = get_checksum_src(response.data)
    /\ pc' = "src_done"
    /\ UNCHANGED <<run_no, remote, file, fileBefore, response, h, pos, fed, chunks,
                   checksum_dest, exc, out, fetches, writes, prevOut, prevFile>>

\* get_checksum_dest: h = hashlib.sha256(); open(file_path, 'rb').  The open
\* raises IOError when the file is missing or may not be read.
DestOpen ==
    /\ pc = "src_done"
    /\ \/ /\ OpenDest.exists
          /\ h' = sha256_new
          /\ pos' = 0
          /\ fed' = <<>>
          /\ chunks' = <<>>
          /\ pc' = "reading"
          /\ exc' = exc
       \/ /\ UNCHANGED <<h, pos, fed, chunks>>
          /\ pc' = "raised"
          /\ exc' = Exc("IOError", "cannot read destination")
    /\ UNCHANGED <<run_no, remote, file, fileBefore, response, h_src, checksum_src,
                   checksum_dest, out, fetches, writes, prevOut, prevFile>>

\* get_checksum_dest: one iteration of the while loop, and the return of
\* h.hexdigest() when the loop breaks.
DestRead ==
    /\ pc = "reading"
    /\ LET chunk == FileRead(OpenDest.bytes, pos, BlockSize)
       IN  IF LoopBreaks(chunk)
           THEN /\ checksum_dest' = hexdigest(h)
                /\ pc' = "dest_done"
                /\ pos' = pos + Len(chunk)
                /\ UNCHANGED <<h, fed, chunks>>
           ELSE /\ h' = update(h, chunk)
                /\ pos' = pos + Len(chunk)
                /\ fed' = fed \o chunk
                /\ chunks' = Append(chunks, Len(chunk))
                /\ UNCHANGED <<checksum_dest, pc>>
    /\ UNCHANGED <<run_no, remote, file, fileBefore, response, h_src, checksum_src,
                   exc, out, fetches, writes, prevOut, prevFile>>

\* The keyword arguments main passes to module.exit_json.
Report ==
    [changed |-> TRUE,
     checksum_dest |-> checksum_dest,
     checksum_src |-> checksum_src,
     status_code |-> response.status]

\* main: module.exit_json(...) emits the result and exits by raising
\* SystemExit, which leaves through the try statement.
ExitJson ==
    /\ pc = "dest_done"
    /\ out' = Append(out, Report)
    /\ exc' = Exc("SystemExit", "0")
    /\ pc' = "raised"
    /\ UNCHANGED <<run_no, remote, file, fileBefore, response, h_src, checksum_src, h,
                   pos, fed, chunks, checksum_dest, fetches, writes, prevOut, prevFile>>

\* main: except errors.ServiceNowError as e: module.fail_json(msg=str(e))
Except ==
    /\ pc = "raised"
    /\ Catches(exc)
    /\ out' = Append(out, [failed |-> TRUE, msg |-> exc.msg])
    /\ pc' = "failed"
    /\ UNCHANGED <<run_no, remote, file, fileBefore, response, h_src, checksum_src, h,
                   pos, fed, chunks, checksum_dest, exc, fetches, writes, prevOut,
                   prevFile>>

\* main: an exception the except clause does not name leaves main.  SystemExit
\* ends the process normally; anything else is an unhandled traceback.
Propagate ==
    /\ pc = "raised"
    /\ ~Catches(exc)
    /\ pc' = IF exc.kind = "SystemExit" THEN "exited" ELSE "crashed"
    /\ UNCHANGED <<run_no, remote, file, fileBefore, response, h_src, checksum_src, h,
                   pos, fed, chunks, checksum_dest, exc, out, fetches, writes, prevOut,
                   prevFile>>

\* The module is run again with the same sys_id and dest against the same
\* remote attachment; in between, the destination may have been replaced.
NextInvocation ==
    /\ pc \in Terminal
    /\ run_no < Runs
    /\ run_no' = run_no + 1
    /\ prevOut' = out
    /\ prevFile' = file
    /\ file' \in PriorFiles \cup {file}
    /\ fileBefore' = file'
    /\ pc' = "main"
    /\ response' = NoResponse
    /\ h_src' = sha256_new
    /\ checksum_src' = NoDigest
    /\ h' = sha256_new
    /\ pos' = 0
    /\ fed' = <<>>
    /\ chunks' = <<>>
    /\ checksum_dest' = NoDigest
    /\ exc' = NoExc
    /\ out' = <<>>
    /\ fetches' = 0
    /\ writes' = 0
    /\ UNCHANGED remote

Next ==
    \/ Fetch
    \/ Persist
    \/ ChecksumSrc
    \/ DestOpen
    \/ DestRead
    \/ ExitJson
    \/ Except
    \/ Propagate
    \/ NextInvocation

Spec == Init /\ [][Next]_vars

\* ------------------------------------------------------------ properties
IsReport(r) == "checksum_src" \in DOMAIN r
IsFailure(r) == "msg" \in DOMAIN r
Reports == SelectSeq(out, IsReport)
Failures == SelectSeq(out, IsFailure)
PrevReports == SelectSeq(prevOut, IsReport)

\* The state of the transfer in the terms of the specification's state machine.
SpecState ==
    CASE pc = "main" -> "Start"
      [] pc = "fetched" -> "Fetched"
      [] pc \in {"persisted", "src_done", "reading", "dest_done"} -> "Persisted"
      [] pc = "raised" -> IF exc.kind = "SystemExit" THEN "Verified" ELSE "Failed"
      [] pc = "exited" -> "Verified"
      [] OTHER -> "Failed"

CeilDiv(a, b) == (a + b - 1) \div b

\* C1: every report the module returns carries a source checksum equal to its
\* destination checksum, the first being the digest of the payload received,
\* the second the digest of the file at dest, both made by the same algorithm.
C1_ChecksumsAgree ==
    \A i \in DOMAIN out :
        IsReport(out[i]) =>
            /\ out[i].checksum_src = out[i].checksum_dest
            /\ out[i].checksum_src = hexdigest(update(sha256_new, response.data))
            /\ out[i].checksum_dest = hexdigest(update(sha256_new, file.bytes))
            /\ h_src.alg = h.alg

C1_Witness ==
    /\ pc = "exited"
    /\ response.status = 200
    /\ Len(response.data) > BlockSize
    /\ Len(Reports) = 1
    /\ Reports[1].checksum_src = Reports[1].checksum_dest
    /\ fileBefore # file

\* C2: once the fetch is answered with status 404 the transfer fails with
\* AttachmentNotFound, whose message is the remote's error.detail; it never
\* ends in another failure and never emits a report.
C2_NotFoundFails ==
    (response.status = 404 /\ pc # "fetched") =>
        /\ exc.kind = "AttachmentNotFound"
        /\ Len(Reports) = 0
        /\ pc \in Terminal =>
            /\ pc = "failed"
            /\ Len(out) = 1
            /\ IsFailure(out[1])
            /\ out[1].msg = response.detail

\* C3: a fetch answered with status 200 whose size_bytes metadata is absent or
\* is no integer never ends in a report, and a transfer that got as far as the
\* metadata fails with MalformedMetadata.
C3_MalformedMetadataFails ==
    (pc \in Terminal /\ response.status = 200 /\ ~IsIntStr(response.size_bytes)) =>
        /\ pc # "exited"
        /\ Len(Reports) = 0
        /\ (checksum_dest # NoDigest => exc.kind = "MalformedMetadata")

\* C4: the report of a successful transfer carries the size parsed from the
\* metadata, and it is the number of bytes of the file at dest.
C4_SizeMatchesFile ==
    pc = "exited" =>
        /\ Len(Reports) = 1
        /\ "size" \in DOMAIN Reports[1]
        /\ Reports[1].size = Len(file.bytes)

\* C5: a successful transfer run again with the same request against the
\* unchanged remote attachment leaves the same bytes at dest and reports the
\* same pair of checksums as the run before, whatever dest held in between.
C5_Idempotent ==
    (run_no > 1 /\ pc = "exited" /\ Len(PrevReports) = 1) =>
        /\ Len(Reports) = 1
        /\ Reports[1].checksum_src = PrevReports[1].checksum_src
        /\ Reports[1].checksum_dest = PrevReports[1].checksum_dest
        /\ file = prevFile
        /\ file = FileOf(remote.data)

C5_Witness ==
    /\ run_no = 2
    /\ pc = "exited"
    /\ Len(PrevReports) = 1
    /\ Len(Reports) = 1
    /\ remote.status = 200
    /\ Len(remote.data) > BlockSize
    /\ fileBefore # prevFile

\* C6: the transfer follows Start, Fetched, Persisted, Verified, Failed: dest is
\* written only after a fetch answered 200, the destination digest is computed
\* only once the payload is persisted, a non-2xx answer leads from Fetched to
\* Failed, and there is no second fetch and no second write.
C6_StateMachine ==
    /\ (writes > 0 => response.status = 200)
    /\ (pc \in {"reading", "dest_done"} => writes = 1 /\ file = FileOf(response.data))
    /\ (response # NoResponse /\ response.status \notin 200..299 /\ pc # "fetched"
            => SpecState = "Failed")
    /\ fetches <= 1
    /\ writes <= 1

\* C7: every failed transfer ends with one structured error carrying a
\* message (fail_json), after a single attempt; none ends as an unhandled fault.
C7_FailuresStructured ==
    (pc \in {"failed", "crashed"}) =>
        /\ pc = "failed"
        /\ Len(out) = 1
        /\ IsFailure(out[1])
        /\ out[1].msg # ""
        /\ fetches <= 1
        /\ writes <= 1

\* C8: an invocation emits at most one result; one that succeeds emits exactly
\* one report and no error, one that fails emits no report and ends with one
\* error (the fail_json result, or else the exception that left main); a report
\* and an error are never both emitted.
C8_OneOutcome ==
    /\ Len(Reports) <= 1
    /\ ~(Len(Reports) > 0 /\ Len(Failures) > 0)
    /\ (pc = "exited" => Len(Reports) = 1 /\ Len(out) = 1 /\ exc.kind = "SystemExit")
    /\ (pc = "failed" => Len(Reports) = 0 /\ Len(out) = 1 /\ IsFailure(out[1]))
    /\ (pc = "crashed" => out = <<>> /\ exc.kind \notin {"none", "SystemExit"})

C8_Witness ==
    /\ run_no = 2
    /\ Len(PrevReports) = 1
    /\ pc = "failed"
    /\ Len(Failures) = 1
    /\ Len(Reports) = 0

\* C9: a fetch answered with status 404 writes nothing: dest is afterwards as
\* it was when the invocation began.
C9_NotFoundWritesNothing ==
    (response.status = 404 /\ pc # "fetched") =>
        /\ file = fileBefore
        /\ writes = 0

C10_LoopInv ==
    /\ pc = "reading" =>
        /\ pos = Len(fed)
        /\ pos <= Len(file.bytes)
        /\ fed = SubSeq(file.bytes, 1, pos)
        /\ \A i \in DOMAIN chunks : chunks[i] \in 1..BlockSize
    /\ pc = "dest_done" =>
        /\ fed = file.bytes
        /\ pos = Len(file.bytes)
        /\ \A i \in DOMAIN chunks : chunks[i] \in 1..BlockSize
        /\ Len(chunks) = CeilDiv(Len(file.bytes), BlockSize)
        /\ checksum_dest = get_checksum_src(file.bytes)

C10_LoopStep ==
    pc = "reading" =>
        \/ pc' = "reading" /\ pos' > pos /\ pos' <= Len(file.bytes)
        \/ pc' = "dest_done" /\ pos' = pos /\ pos = Len(file.bytes)

\* C10: get_checksum_dest feeds the file to the hash in chunks of at most
\* block_size bytes, every byte once and in order; each iteration advances in
\* the file until the first empty read ends the loop, so the loop terminates;
\* the digest is the one get_checksum_src makes of the same bytes in one update.
C10_ChunkedDigest == [](C10_LoopInv) /\ [][C10_LoopStep]_vars

C10_Witness ==
    /\ pc = "dest_done"
    /\ Len(chunks) >= 2
    /\ chunks[Len(chunks)] < BlockSize
    /\ fed = file.bytes
    /\ checksum_dest = get_checksum_src(response.data)

====
